---- MODULE Spec2Model ----
(***************************************************************************)
(* Model of the checktrack invoice front end:                              *)
(*   - the paginated invoice listing (routes/_layout/invoices.tsx): the    *)
(*     page search parameter, the query cache keyed by ["invoices",{page}],*)
(*     the fetches in flight, the placeholder data and the prefetch effect;*)
(*   - the AddInvoice and EditInvoice mutations and their invalidations;   *)
(*   - the receipt template;                                               *)
(*   - the serial number allocator behind InvoiceService.createInvoice.    *)
(***************************************************************************)
EXTENDS Integers, Sequences, FiniteSets

VARIABLES
    page,           \* Route.useSearch().page
    total,          \* number of invoices in the store behind readInvoices
    cache,          \* query cache: page key -> query state
    inflight,       \* page key -> the request in flight for that query
    lastDefined,    \* key of the observer's last query with defined data
    toast,          \* last toast shown by showToast
    invoice,        \* receipt template context
    receipt,        \* rendered receipt, a sequence of lines
    counter,        \* durable serial number counter
    pc,             \* creator -> position in the create operation
    held,           \* creator -> serial number it holds
    issued,         \* serial numbers in issuance order
    stored,         \* serial numbers of stored invoices
    deleted         \* serial numbers of deleted invoices

listVars == <<page, total, cache, inflight, lastDefined, toast>>
receiptVars == <<invoice, receipt>>
serialVars == <<counter, pc, held, issued, stored, deleted>>
vars == <<page, total, cache, inflight, lastDefined, toast,
          invoice, receipt,
          counter, pc, held, issued, stored, deleted>>

----------------------------------------------------------------------------
(* Bounds *)

MaxPage == 3
MaxTotal == 12
MaxInflight == 2
MaxProducts == 2
NumCreators == 2
MaxSerial == 4

(* Program constants *)

PER_PAGE == 5

----------------------------------------------------------------------------
(* Listing: routes/_layout/invoices.tsx *)

\* Values of the page search parameter that invoiceSearchSchema accepts:
\* z.number() has no lower bound and no integer check, so 0 passes.
UrlPages == 0..MaxPage

\* Keys the cache can hold: every page and the page prefetched after the last.
Keys == 0..(MaxPage + 1)

NoPage == -1

Undefined == [defined |-> FALSE, skip |-> 0, limit |-> 0, items |-> <<>>]

None == [active |-> FALSE, skip |-> 0, limit |-> 0, prefetch |-> FALSE,
         superseded |-> FALSE]

Absent == [status |-> "absent", data |-> Undefined, invalidated |-> FALSE]

Min(a, b) == IF a < b THEN a ELSE b

\* A window computed from a 0-indexed page: skip = page * PER_PAGE.
getInvoiceQueryOptionsSkipNext(p) == [skip |-> p * PER_PAGE, limit |-> PER_PAGE]

\* The request getInvoiceQueryOptions({page}).queryFn sends.
getInvoiceQueryOptions(p) == [skip |-> (p - 1) * PER_PAGE, limit |-> PER_PAGE]

\* ItemsService.readInvoices: the window of the ordered invoice list, the
\* invoices named by their position in it.
readInvoices(skip, limit) ==
    [defined |-> TRUE, skip |-> skip, limit |-> limit,
     items |-> [i \in 1..(IF total > skip THEN Min(limit, total - skip) ELSE 0)
                  |-> skip + i]]

\* useQuery's result for the page, with placeholderData: (prevData) => prevData.
IsPlaceholderDataOf(p, c, ld) ==
    /\ ~c[p].data.defined
    /\ c[p].status = "pending"
    /\ ld # NoPage
    /\ c[ld].data.defined

InvoicesOf(p, c, ld) ==
    IF c[p].data.defined THEN c[p].data
    ELSE IF IsPlaceholderDataOf(p, c, ld) THEN c[ld].data
    ELSE Undefined

\* hasNextPage without the !isPlaceholderData conjunct.
HasNextPageNoPlaceholderCheck(p, c, ld) ==
    /\ InvoicesOf(p, c, ld).defined
    /\ Len(InvoicesOf(p, c, ld).items) = PER_PAGE

\* hasNextPage taken from a non-empty page instead of a full one.
HasNextPageNonEmpty(p, c, ld) ==
    /\ ~IsPlaceholderDataOf(p, c, ld)
    /\ InvoicesOf(p, c, ld).defined
    /\ Len(InvoicesOf(p, c, ld).items) > 0

\* hasNextPage = !isPlaceholderData && invoices?.data.length === PER_PAGE
HasNextPageOf(p, c, ld) ==
    /\ ~IsPlaceholderDataOf(p, c, ld)
    /\ InvoicesOf(p, c, ld).defined
    /\ Len(InvoicesOf(p, c, ld).items) = PER_PAGE

IsPlaceholderData == IsPlaceholderDataOf(page, cache, lastDefined)
Invoices == InvoicesOf(page, cache, lastDefined)
HasNextPage == HasNextPageOf(page, cache, lastDefined)
HasPreviousPage == page > 1

\* A query starts fetching: one without data is pending while it fetches.
StartedQuery(q) ==
    IF q.data.defined THEN q ELSE [q EXCEPT !.status = "pending"]

\* query.fetch from the observer (mount, key change, refetch of the active
\* query): a fetch already in flight for the key is the one it waits for.
ObserverFetch(k, f) ==
    [f EXCEPT ![k] = [active |-> TRUE,
                      skip |-> getInvoiceQueryOptions(k).skip,
                      limit |-> getInvoiceQueryOptions(k).limit,
                      prefetch |-> FALSE, superseded |-> FALSE]]

\* A prefetch of the page before k: the effect fetching page instead of
\* page + 1.
PrefetchQueryCurrentPage(k, f) ==
    [f EXCEPT ![k - 1] = [active |-> TRUE,
                          skip |-> getInvoiceQueryOptions(k - 1).skip,
                          limit |-> getInvoiceQueryOptions(k - 1).limit,
                          prefetch |-> TRUE, superseded |-> FALSE]]

\* queryClient.prefetchQuery(getInvoiceQueryOptions({page: k})): staleTime is
\* 0, so it always fetches, joining a fetch already in flight for the key.
PrefetchQuery(k, f) ==
    [f EXCEPT ![k] = [active |-> TRUE,
                      skip |-> getInvoiceQueryOptions(k).skip,
                      limit |-> getInvoiceQueryOptions(k).limit,
                      prefetch |-> TRUE, superseded |-> FALSE]]

\* The render that follows a change, then the useEffect on
\* [page, queryClient, hasNextPage]: p1, c1, f1 are the page, the cache and
\* the fetches after the handler itself.
Render(p1, c1, f1) ==
    LET ld1 == IF c1[p1].data.defined THEN p1 ELSE lastDefined
        next == HasNextPageOf(p1, c1, ld1)
        run == (p1 # page \/ next # HasNextPage) /\ next
        f2 == IF run THEN PrefetchQuery(p1 + 1, f1) ELSE f1
        c2 == IF run THEN [c1 EXCEPT ![p1 + 1] = StartedQuery(@)] ELSE c1
    IN  /\ Cardinality({k \in Keys : f2[k].active}) <= MaxInflight
        /\ page' = p1
        /\ lastDefined' = ld1
        /\ cache' = c2
        /\ inflight' = f2

\* The search parameter changes to p: the observer leaves the old query,
\* whose fetch goes on (the queryFn takes no abort signal), and fetches p.
ChangePage(p) ==
    /\ p # page
    /\ LET f0 == [k \in Keys |->
                    IF inflight[k].active /\ k # p
                    THEN [inflight[k] EXCEPT !.superseded = TRUE]
                    ELSE inflight[k]]
           f1 == ObserverFetch(p, f0)
           c1 == [cache EXCEPT ![p] = StartedQuery(@)]
       IN Render(p, c1, f1)
    /\ UNCHANGED <<total, toast>>

\* PaginationFooter: onChangePage(page + 1), offered when hasNextPage.
NextPage ==
    /\ HasNextPage
    /\ page + 1 \in UrlPages
    /\ ChangePage(page + 1)

\* PaginationFooter: onChangePage(page - 1), offered when hasPreviousPage.
PreviousPage ==
    /\ HasPreviousPage
    /\ ChangePage(page - 1)

\* The user opens the route with another page in the URL.
UrlNavigate ==
    \E p \in UrlPages : ChangePage(p)

\* A response written to the query of the page requested now, not to the
\* query of the key it was fetched for.
FetchSucceedUnderCurrentPage(k) ==
    /\ inflight[k].active
    /\ inflight[k].skip >= 0
    /\ LET c1 == [cache EXCEPT ![page] =
                    [status |-> "success",
                     data |-> readInvoices(inflight[k].skip, inflight[k].limit),
                     invalidated |-> FALSE]]
           f1 == [inflight EXCEPT ![k] = None]
       IN Render(page, c1, f1)
    /\ UNCHANGED <<total, toast>>

\* The response of the fetch for key k arrives and is written to the query
\* of key k.
FetchSucceed(k) ==
    /\ inflight[k].active
    /\ inflight[k].skip >= 0
    /\ LET c1 == [cache EXCEPT ![k] =
                    [status |-> "success",
                     data |-> readInvoices(inflight[k].skip, inflight[k].limit),
                     invalidated |-> FALSE]]
           f1 == [inflight EXCEPT ![k] = None]
       IN Render(page, c1, f1)
    /\ UNCHANGED <<total, toast>>

\* A failing fetch that reports its error as the mutations do.
FetchFailToast(k) ==
    /\ inflight[k].active
    /\ LET c1 == [cache EXCEPT ![k].status = "error"]
           f1 == [inflight EXCEPT ![k] = None]
       IN Render(page, c1, f1)
    /\ toast' = "error"
    /\ UNCHANGED total

\* The fetch for key k fails: the query keeps its data and is in error;
\* neither useQuery nor prefetchQuery reports the error.
FetchFail(k) ==
    /\ inflight[k].active
    /\ LET c1 == [cache EXCEPT ![k].status = "error"]
           f1 == [inflight EXCEPT ![k] = None]
       IN Render(page, c1, f1)
    /\ UNCHANGED <<total, toast>>

FetchSucceeds == \E k \in Keys : FetchSucceed(k)
FetchFails == \E k \in Keys : FetchFail(k)

----------------------------------------------------------------------------
(* Mutations: AddInvoice and EditInvoice *)

\* queryClient.invalidateQueries({queryKey}): every query whose key starts
\* with queryKey is marked invalidated and the active one is fetched again.
\* All listing queries have keys ["invoices", {page}].
InvalidateQueries(queryKey) ==
    IF queryKey = "invoices"
    THEN LET c1 == [k \in Keys |->
                      IF cache[k].status # "absent"
                      THEN [cache[k] EXCEPT !.invalidated = TRUE]
                      ELSE cache[k]]
             c2 == [c1 EXCEPT ![page] = StartedQuery(@)]
             f1 == ObserverFetch(page, inflight)
         IN Render(page, c2, f1)
    ELSE Render(page, cache, inflight)

\* AddInvoice: mutation.mutate(data) whose createInvoice succeeds: onSuccess,
\* then onSettled. The listing does not observe the mutation while it is
\* pending, so the submission and its settlement are one step here.
AddInvoiceSuccess ==
    /\ total < MaxTotal
    /\ total' = total + 1
    /\ toast' = "Invoice created successfully."
    /\ InvalidateQueries("invoices")

\* AddInvoice: createInvoice fails: onError, then onSettled.
AddInvoiceError ==
    /\ toast' = "error"
    /\ InvalidateQueries("invoices")
    /\ UNCHANGED total

\* EditInvoice, opened from a row of the table: mutation.mutate(data) whose
\* updateInvoice succeeds: onSuccess, then onSettled.
EditInvoiceSuccess ==
    /\ Invoices.defined
    /\ Len(Invoices.items) > 0
    /\ toast' = "Invoice updated successfully."
    /\ InvalidateQueries("invocie")
    /\ UNCHANGED total

\* EditInvoice: updateInvoice fails: onError, then onSettled.
EditInvoiceError ==
    /\ Invoices.defined
    /\ Len(Invoices.items) > 0
    /\ toast' = "error"
    /\ InvalidateQueries("invocie")
    /\ UNCHANGED total

----------------------------------------------------------------------------
(* Specification of the listing *)

IdleReceipt ==
    /\ invoice = [products |-> <<>>, payment |-> "none", rest |-> 0]
    /\ receipt = <<>>

IdleSerial ==
    /\ counter = 0
    /\ pc = <<>>
    /\ held = <<>>
    /\ issued = <<>>
    /\ stored = {}
    /\ deleted = {}

\* The route is mounted: the observer creates the page's query and fetches.
Init ==
    /\ page \in UrlPages
    /\ total \in (MaxTotal - 1)..MaxTotal
    /\ cache = [k \in Keys |-> IF k = page THEN StartedQuery(Absent) ELSE Absent]
    /\ inflight = ObserverFetch(page, [k \in Keys |-> None])
    /\ lastDefined = NoPage
    /\ toast = "none"
    /\ IdleReceipt
    /\ IdleSerial

Next ==
    \/ (NextPage /\ UNCHANGED receiptVars /\ UNCHANGED serialVars)
    \/ (PreviousPage /\ UNCHANGED receiptVars /\ UNCHANGED serialVars)
    \/ (UrlNavigate /\ UNCHANGED receiptVars /\ UNCHANGED serialVars)
    \/ (FetchSucceeds /\ UNCHANGED receiptVars /\ UNCHANGED serialVars)
    \/ (FetchFails /\ UNCHANGED receiptVars /\ UNCHANGED serialVars)
    \/ (AddInvoiceSuccess /\ UNCHANGED receiptVars /\ UNCHANGED serialVars)
    \/ (AddInvoiceError /\ UNCHANGED receiptVars /\ UNCHANGED serialVars)
    \/ (EditInvoiceSuccess /\ UNCHANGED receiptVars /\ UNCHANGED serialVars)
    \/ (EditInvoiceError /\ UNCHANGED receiptVars /\ UNCHANGED serialVars)

Spec == Init /\ [][Next]_vars

----------------------------------------------------------------------------
(* Properties of the listing *)

TypeOK ==
    /\ page \in UrlPages
    /\ total \in 0..MaxTotal
    /\ lastDefined \in Keys \cup {NoPage}
    /\ toast \in {"none", "error", "Invoice created successfully.",
                  "Invoice updated successfully."}
    /\ \A k \in Keys :
        /\ cache[k].status \in {"absent", "pending", "success", "error"}
        /\ cache[k].invalidated \in BOOLEAN
        /\ inflight[k].active \in BOOLEAN

SuccessToasts == {"Invoice created successfully.", "Invoice updated successfully."}

AllInvalidated == \A k \in Keys : cache[k].data.defined => cache[k].invalidated

Window(k) == ((k - 1) * PER_PAGE + 1)..(k * PER_PAGE)

\* C1: after any successful create or update of an invoice (the step in which
\* its success toast appears), every cached listing page is invalidated, on
\* the EditInvoice path as on the AddInvoice path.
C1_MutationInvalidatesAllPages ==
    [][(toast' \in SuccessToasts /\ toast' # toast) => AllInvalidated']_vars

\* C2: the cache entry keyed under page k, and the fetch in flight for it,
\* hold only the response to the read with skip = (k - 1) * limit and limit 5,
\* so only items of page k's window; what the table shows as the page's own
\* (non-placeholder) data is the entry keyed under the current page.
C2_CacheKeyedByOwnPage ==
    /\ \A k \in Keys :
        /\ cache[k].data.defined =>
            /\ cache[k].data.skip = (k - 1) * PER_PAGE
            /\ cache[k].data.limit = PER_PAGE
            /\ \A i \in 1..Len(cache[k].data.items) :
                 cache[k].data.items[i] \in Window(k)
        /\ inflight[k].active =>
            /\ inflight[k].skip = (k - 1) * PER_PAGE
            /\ inflight[k].limit = PER_PAGE
    /\ (Invoices.defined /\ ~IsPlaceholderData) => Invoices = cache[page].data

C2_Witness ==
    \E k \in Keys :
        /\ k # page
        /\ cache[k].data.defined /\ Len(cache[k].data.items) > 0
        /\ cache[page].data.defined /\ Len(cache[page].data.items) > 0
        /\ inflight[page + 1].active

\* A superseded fetch for key k completes in this step.
SupersededCompletes(k) ==
    inflight[k].active /\ inflight[k].superseded /\ ~inflight'[k].active

C4_HasNextPageIffFullPage ==
    /\ HasNextPage <=>
         (cache[page].data.defined /\ Len(cache[page].data.items) = PER_PAGE)
    /\ (total = 12 /\ page = 1 /\ cache[1].data.defined /\ ~cache[1].invalidated)
         => (Len(Invoices.items) = 5 /\ HasNextPage)
    /\ (total = 12 /\ page = 3 /\ cache[3].data.defined /\ ~cache[3].invalidated)
         => (Len(Invoices.items) = 2 /\ ~HasNextPage)

C4_Witness ==
    /\ total = 12
    /\ page = 3
    /\ cache[3].data.defined /\ ~cache[3].invalidated
    /\ Len(Invoices.items) = 2
    /\ cache[1].data.defined /\ Len(cache[1].data.items) = 5

\* C5: whenever hasNextPage is true for the displayed page N, the fetch of
\* page N+1 (skip = N * limit) has been issued without a navigation to it: it
\* is in flight, or its response is cached under N+1, or it failed; it is
\* issued in the step that makes hasNextPage true or changes the page; and a
\* navigation to N+1 after the response is cached shows that data at once.
C5_NextPagePrefetched ==
    /\ [](HasNextPage =>
            \/ /\ inflight[page + 1].active
               /\ inflight[page + 1].skip = page * PER_PAGE
            \/ /\ cache[page + 1].data.defined
               /\ cache[page + 1].data.skip = page * PER_PAGE
            \/ cache[page + 1].status = "error")
    /\ [][/\ (HasNextPage' /\ (~HasNextPage \/ page' # page)) =>
               /\ inflight'[page' + 1].active
               /\ inflight'[page' + 1].skip = page' * PER_PAGE
               /\ inflight'[page' + 1].limit = PER_PAGE
          /\ (HasNextPage /\ page' = page + 1 /\ cache[page + 1].data.defined) =>
               /\ ~IsPlaceholderData'
               /\ Invoices' = cache[page + 1].data]_vars

C5_Witness ==
    /\ page = 1
    /\ HasNextPage
    /\ ~inflight[2].active
    /\ cache[2].data.defined /\ Len(cache[2].data.items) = PER_PAGE

\* A fetch issued by prefetchQuery alone fails in this step.
PrefetchFails(k) ==
    /\ inflight[k].active /\ inflight[k].prefetch
    /\ ~inflight'[k].active
    /\ cache'[k].status = "error"

\* C6: a failed prefetch of page N+1 shows no error, leaves the displayed page
\* and the cache entries of all other pages unchanged and stores no data under
\* N+1 (the entry's data is what it was, its status is error); a later navigation to N+1 issues an on-demand fetch for it.
C6_FailedPrefetchSilentlyDropped ==
    [][/\ \A k \in Keys : PrefetchFails(k) =>
             /\ toast' = toast
             /\ page' = page
             /\ k # page
             /\ Invoices' = Invoices
             /\ IsPlaceholderData' = IsPlaceholderData
             /\ cache'[k].data = cache[k].data
             /\ \A j \in Keys \ {k} : cache'[j] = cache[j]
       /\ (page' # page /\ cache[page'].status = "error"
              /\ ~cache[page'].data.defined) =>
             /\ inflight'[page'].active
             /\ ~inflight'[page'].prefetch
             /\ inflight'[page'].skip = (page' - 1) * PER_PAGE
             /\ cache'[page'].status = "pending"]_vars

\* Page 1 is shown with a full page and the fetch of page 2 that its effect
\* issued or joined has failed.
C6_Witness ==
    /\ page = 1
    /\ lastDefined = 1
    /\ HasNextPage
    /\ toast = "none"
    /\ ~inflight[2].active
    /\ cache[2].status = "error"
    /\ ~cache[2].data.defined

\* C7: every List request the listing issues has a non-negative skip and a
\* positive limit.
C7_ListRequestsWellFormed ==
    \A k \in Keys : inflight[k].active =>
        (inflight[k].skip >= 0 /\ inflight[k].limit > 0)

\* C10: while the table shows the previous page's items as placeholder data,
\* hasNextPage is false and no prefetch of page + 1 is running on behalf of
\* the displayed state.
C10_NoNextPageOnPlaceholder ==
    IsPlaceholderData =>
        /\ ~HasNextPage
        /\ ~(/\ inflight[page + 1].active
             /\ inflight[page + 1].prefetch
             /\ ~inflight[page + 1].superseded)

C10_Witness ==
    /\ IsPlaceholderData
    /\ Len(Invoices.items) = PER_PAGE
    /\ page + 1 \in UrlPages

----------------------------------------------------------------------------
(* Receipt template *)

NoPayment == [linked |-> FALSE, type |-> ""]

Line(kind, text, n1, n2, n3) ==
    [kind |-> kind, text |-> text, n1 |-> n1, n2 |-> n2, n3 |-> n3]

\* {% for product in products %} ... {% endfor %}
RECURSIVE ProductLines(_)
ProductLines(products) ==
    IF products = <<>> THEN <<>>
    ELSE LET product == Head(products)
         IN <<Line("line", "", product.stock, product.price,
                   product.stock * product.price),
              Line("title", product.title, 0, 0, 0),
              Line("sub_divider", "", 0, 0, 0)>>
            \o ProductLines(Tail(products))

\* The template with the rest line inside {% if invoice.payment %}.
RenderReceiptTextRestInsidePayment(inv) ==
    <<Line("shop_name", "", 0, 0, 0),
      Line("divider", "", 0, 0, 0),
      Line("header", "", inv.serial_number, 0, 0),
      Line("divider", "", 0, 0, 0)>>
    \o ProductLines(inv.products)
    \o <<Line("divider", "", 0, 0, 0),
         Line("sum", "", inv.total_products_amount, 0, 0)>>
    \o (IF inv.payment.linked
        THEN <<Line("payment", inv.payment.type, inv.total_amount, 0, 0),
               Line("rest", "", inv.rest, 0, 0)>>
        ELSE <<>>)
    \o <<Line("divider", "", 0, 0, 0),
         Line("date", inv.date_of_issue, 0, 0, 0),
         Line("thanks", "", 0, 0, 0)>>

\* The receipt template, one record per output line.
RenderReceiptText(inv) ==
    <<Line("shop_name", "", 0, 0, 0),
      Line("divider", "", 0, 0, 0),
      Line("header", "", inv.serial_number, 0, 0),
      Line("divider", "", 0, 0, 0)>>
    \o ProductLines(inv.products)
    \o <<Line("divider", "", 0, 0, 0),
         Line("sum", "", inv.total_products_amount, 0, 0)>>
    \o (IF inv.payment.linked
        THEN <<Line("payment", inv.payment.type, inv.total_amount, 0, 0)>>
        ELSE <<>>)
    \o <<Line("rest", "", inv.rest, 0, 0),
         Line("divider", "", 0, 0, 0),
         Line("date", inv.date_of_issue, 0, 0, 0),
         Line("thanks", "", 0, 0, 0)>>

RenderReceipt ==
    /\ receipt = <<>>
    /\ receipt' = RenderReceiptText(invoice)
    /\ UNCHANGED invoice

ProductChoices == [title : {"Bread", "Milk"}, stock : {1, 2}, price : {150, 200}]

ProductLists ==
    UNION {[1..n -> ProductChoices] : n \in 0..MaxProducts}

IdleListing ==
    /\ page = 1
    /\ total = 0
    /\ cache = [k \in Keys |-> Absent]
    /\ inflight = [k \in Keys |-> None]
    /\ lastDefined = NoPage
    /\ toast = "none"

InitReceipt ==
    /\ invoice \in [serial_number : {7},
                    products : ProductLists,
                    payment : {NoPayment, [linked |-> TRUE, type |-> "cash"],
                               [linked |-> TRUE, type |-> "card"]},
                    total_products_amount : {500},
                    total_amount : {450},
                    rest : {0, 2000},
                    date_of_issue : {"06.11.2026 09:00"}]
    /\ receipt = <<>>
    /\ IdleListing
    /\ IdleSerial

NextReceipt ==
    RenderReceipt /\ UNCHANGED listVars /\ UNCHANGED serialVars

SpecReceipt == InitReceipt /\ [][NextReceipt]_vars

Kinds(lines) == [i \in 1..Len(lines) |-> lines[i].kind]

RECURSIVE Repeat(_, _)
Repeat(seq, n) == IF n = 0 THEN <<>> ELSE seq \o Repeat(seq, n - 1)

----------------------------------------------------------------------------
(* Serial number allocator (SerialNumberAllocator.issue, behind createInvoice) *)

Creators == 1..NumCreators

Max(S) == CHOOSE x \in S : \A y \in S : y <= x

\* An allocator that numbers the next invoice after the highest stored one,
\* without a counter of its own.
IssueMaxStoredPlusOne(c) ==
    /\ pc[c] = "idle"
    /\ counter < MaxSerial
    /\ counter' = counter + 1
    /\ held' = [held EXCEPT ![c] = Max(stored \cup {0}) + 1]
    /\ issued' = Append(issued, Max(stored \cup {0}) + 1)
    /\ pc' = [pc EXCEPT ![c] = "allocated"]
    /\ UNCHANGED <<stored, deleted>>

\* issue(): the durable counter is incremented atomically and the new value
\* is the serial number.
Issue(c) ==
    /\ pc[c] = "idle"
    /\ counter < MaxSerial
    /\ counter' = counter + 1
    /\ held' = [held EXCEPT ![c] = counter + 1]
    /\ issued' = Append(issued, counter + 1)
    /\ pc' = [pc EXCEPT ![c] = "allocated"]
    /\ UNCHANGED <<stored, deleted>>

\* The creator stores its invoice under the serial number it holds.
StoreInvoice(c) ==
    /\ pc[c] = "allocated"
    /\ stored' = stored \cup {held[c]}
    /\ pc' = [pc EXCEPT ![c] = "idle"]
    /\ held' = [held EXCEPT ![c] = 0]
    /\ UNCHANGED <<counter, issued, deleted>>

\* The creator crashes after allocation and before the invoice is stored.
Crash(c) ==
    /\ pc[c] = "allocated"
    /\ pc' = [pc EXCEPT ![c] = "idle"]
    /\ held' = [held EXCEPT ![c] = 0]
    /\ UNCHANGED <<counter, issued, stored, deleted>>

\* An invoice is deleted; its serial number is not reclaimed.
DeleteInvoice(n) ==
    /\ n \in stored
    /\ stored' = stored \ {n}
    /\ deleted' = deleted \cup {n}
    /\ UNCHANGED <<counter, pc, held, issued>>

InitSerial ==
    /\ counter = 0
    /\ pc = [c \in Creators |-> "idle"]
    /\ held = [c \in Creators |-> 0]
    /\ issued = <<>>
    /\ stored = {}
    /\ deleted = {}
    /\ IdleListing
    /\ IdleReceipt

NextSerial ==
    \/ (\E c \in Creators : Issue(c)) /\ UNCHANGED listVars /\ UNCHANGED receiptVars
    \/ (\E c \in Creators : StoreInvoice(c)) /\ UNCHANGED listVars
          /\ UNCHANGED receiptVars
    \/ (\E c \in Creators : Crash(c)) /\ UNCHANGED listVars /\ UNCHANGED receiptVars
    \/ (\E n \in 1..MaxSerial : DeleteInvoice(n)) /\ UNCHANGED listVars
          /\ UNCHANGED receiptVars

SpecSerial == InitSerial /\ [][NextSerial]_vars

\* C9: the serial numbers issued by concurrent creators, also when a creator
\* crashes between allocation and storing, are pairwise distinct and
\* non-decreasing in issuance order, and the number of a deleted invoice is
\* never issued again nor held by another invoice.
C9_SerialNumbersUnique ==
    /\ \A i, j \in 1..Len(issued) :
         /\ (i # j => issued[i] # issued[j])
         /\ (i < j => issued[i] <= issued[j])
    /\ \A n \in deleted :
         /\ n \notin stored
         /\ \A c \in Creators : pc[c] = "allocated" => held[c] # n
         /\ Cardinality({i \in 1..Len(issued) : issued[i] = n}) = 1

C9_Witness ==
    /\ Len(issued) = MaxSerial
    /\ deleted # {}
    /\ \E n \in 1..MaxSerial : n \notin stored \cup deleted
          /\ \A c \in Creators : held[c] # n
    /\ \E c \in Creators : pc[c] = "allocated"

====
